---------------------------- MODULE Spec2Model ----------------------------
(***************************************************************************)
(* scripts/generate_psa_constants.py: the MacroCollector that classifies   *)
(* the #define lines of include/psa/crypto.h, the fragments it renders     *)
(* into output_template, the generated C functions, and the                *)
(* generate_psa_constants pipeline that writes the result to a temporary   *)
(* path and renames it into place.                                         *)
(*                                                                         *)
(* Python str values are TLA+ strings; a header line is the text of the    *)
(* line without its terminating newline (neither \s nor . can make a       *)
(* match depend on it: . stops before it and a \s that swallows it leaves  *)
(* nothing for the .+ that follows).                                       *)
(***************************************************************************)
EXTENDS Integers, Sequences, FiniteSets, TLC

VARIABLES collector, fed, pc, header, hashseed, fs, ret

vars == <<collector, fed, pc, header, hashseed, fs, ret>>

(***************************************************************************)
(* Bounds of the model.                                                    *)
(***************************************************************************)
\* lines read_line is applied to in one run of the collector
MaxLines == 3

\* lines of the header file of one run of generate_psa_constants
MaxFileLines == 2

\* the hash seeds of the Python process are 0..MaxSeed
MaxSeed == 1

\* the key usage values passed to psa_snprint_key_usage are those of
\* UsageBits bits
UsageBits == 3

(***************************************************************************)
(* str primitives.                                                         *)
(***************************************************************************)
Min(a, b) == IF a < b THEN a ELSE b

Max(a, b) == IF a > b THEN a ELSE b

\* s[i], 1-based, "" outside the string
Ch(s, i) == IF 1 <= i /\ i <= Len(s) THEN SubSeq(s, i, i) ELSE ""

\* s[i-1:j] of Python, 1-based and inclusive, clamped to the string
Slice(s, i, j) == SubSeq(s, Max(i, 1), Min(j, Len(s)))

startswith(s, p) == Len(p) <= Len(s) /\ SubSeq(s, 1, Len(p)) = p

endswith(s, p) ==
    Len(p) <= Len(s) /\ SubSeq(s, Len(s) - Len(p) + 1, Len(s)) = p

Digits == {"0", "1", "2", "3", "4", "5", "6", "7", "8", "9"}

UpperCase ==
    {"A", "B", "C", "D", "E", "F", "G", "H", "I", "J", "K", "L", "M",
     "N", "O", "P", "Q", "R", "S", "T", "U", "V", "W", "X", "Y", "Z"}

LowerCase ==
    {"a", "b", "c", "d", "e", "f", "g", "h", "i", "j", "k", "l", "m",
     "n", "o", "p", "q", "r", "s", "t", "u", "v", "w", "x", "y", "z"}

\* \s of the re module, as far as a line without its newline can hold it
WhiteSpace == {" ", "\t", "\r", "\f"}

\* \w
WordChars == Digits \cup UpperCase \cup LowerCase \cup {"_"}

\* [0-9A-Fa-f]
HexDigits == Digits \cup {"A", "B", "C", "D", "E", "F",
                          "a", "b", "c", "d", "e", "f"}

\* the first position from i on whose character is not in cls: where a
\* greedy cls* that starts at i stops
RECURSIVE Span(_, _, _)
Span(s, i, cls) ==
    IF i <= Len(s) /\ SubSeq(s, i, i) \in cls THEN Span(s, i + 1, cls) ELSE i

(***************************************************************************)
(* definition_re and re.match(definition_re, line).                        *)
(* The pattern is, piece by piece: white space, #, white space, define,    *)
(* white space (one or more), group 1 = a word, then either white space    *)
(* (one or more) or a parenthesised word (group 2) and white space, then   *)
(* group 3 = one or more characters, then an optional comment opener.      *)
(* Group 3 is greedy and the comment opener is optional, so group 3 runs  *)
(* to the end of the line.  When the white space before group 3           *)
(* reaches the end of the line the matcher backtracks and leaves the last  *)
(* white space character to group 3.                                       *)
(***************************************************************************)
None == ""

NoMatch == [matched |-> FALSE, name |-> "", parameter |-> None,
            definition |-> ""]

Groups(n, p, d) == [matched |-> TRUE, name |-> n, parameter |-> p,
                    definition |-> d]

definition_re(line) ==
    LET n == Len(line)
        hash == Span(line, 1, WhiteSpace)
        kw == Span(line, hash + 1, WhiteSpace)
        sp == kw + Len("define")
        nm == Span(line, sp, WhiteSpace)
        ne == Span(line, nm, WordChars)
        name == Slice(line, nm, ne - 1)
        ws == Span(line, ne, WhiteSpace)
        pe == Span(line, ne + 1, WordChars)
        ps == Span(line, pe + 1, WhiteSpace)
    IN  IF ~ (/\ Ch(line, hash) = "#"
              /\ Slice(line, kw, sp - 1) = "define"
              /\ nm > sp
              /\ ne > nm)
        THEN NoMatch
        ELSE IF ws > ne
        THEN IF ws <= n THEN Groups(name, None, Slice(line, ws, n))
             ELSE IF ws > ne + 1 THEN Groups(name, None, Slice(line, n, n))
             ELSE NoMatch
        ELSE IF Ch(line, ne) = "(" /\ pe > ne + 1 /\ Ch(line, pe) = ")"
        THEN IF ps <= n
             THEN Groups(name, Slice(line, ne + 1, pe - 1), Slice(line, ps, n))
             ELSE IF ps > pe + 1
             THEN Groups(name, Slice(line, ne + 1, pe - 1), Slice(line, n, n))
             ELSE NoMatch
        ELSE NoMatch

\* hash_re with the pattern 0x[0-9A-Fa-f]{8}: any eight-digit literal
hash_re_any_literal(definition) ==
    \E i \in 1..Len(definition) :
        /\ Slice(definition, i, i + 1) = "0x"
        /\ \A k \in 2..9 : Ch(definition, i + k) \in HexDigits

\* re.search(r'0x010000[0-9A-Fa-f]{2}', definition)
hash_re(definition) ==
    \E i \in 1..Len(definition) :
        /\ Slice(definition, i, i + 7) = "0x010000"
        /\ Ch(definition, i + 8) \in HexDigits
        /\ Ch(definition, i + 9) \in HexDigits

(***************************************************************************)
(* The lines read_line is applied to.  The names and values follow         *)
(* include/psa/crypto.h; the last ones are lines the collector must skip   *)
(* or must not confuse: a name with MASK inside it, a name defined both    *)
(* with and without a parameter, a macro redefined with another value,     *)
(* macros of two parameters or of no body, and lines that define nothing.  *)
(***************************************************************************)
HeaderLines ==
    {"#define PSA_SUCCESS ((psa_status_t)0)",
     "#define PSA_ERROR_BAD_STATE ((psa_status_t)-137)",
     "  #  define PSA_ERROR_UNKNOWN_ERROR\t((psa_status_t)1) /* generic */",
     "#define PSA_ERROR_OFFSET(e) ((psa_status_t)(e))",
     "#define PSA_KEY_TYPE_AES ((psa_key_type_t)0x40000001)",
     "#define PSA_KEY_TYPE_AES(curve) (PSA_KEY_TYPE_AES | (curve))",
     "#define PSA_KEY_TYPE_ECC_KEYPAIR(curve) (PSA_KEY_TYPE_ECC_KEYPAIR_BASE | (curve))",
     "#define PSA_KEY_TYPE_ECC_PUBLIC_KEY(curve) (PSA_KEY_TYPE_ECC_PUBLIC_KEY_BASE | (curve))",
     "#define PSA_KEY_TYPE_PAIR_FLAG ((psa_key_type_t)0x10000000)",
     "#define PSA_KEY_TYPE_CATEGORY_MASK ((psa_key_type_t)0x7e000000)",
     "#define PSA_KEY_TYPE_MASK_LOW ((psa_key_type_t)0x0000ffff)",
     "#define PSA_KEY_TYPE_IS_RSA(type) (((type) & ~PSA_KEY_TYPE_PAIR_FLAG) == 0x60010000)",
     "#define PSA_ECC_CURVE_SECP256R1 ((psa_ecc_curve_t) 0x0017)",
     "#define PSA_ALG_BLOCK_CIPHER_PAD_NONE ((psa_algorithm_t)0x00000000)",
     "#define PSA_ALG_BLOCK_CIPHER_PAD_NONE(hash_alg) (hash_alg)",
     "#define PSA_ALG_SHA_256 ((psa_algorithm_t)0x01000009)",
     "#define PSA_ALG_SHA_256(hash_alg) (hash_alg)",
     "#define PSA_ALG_FOO ((psa_algorithm_t)0x01000055)",
     "#define PSA_ALG_FOO ((psa_algorithm_t)0x02000055)",
     "#define PSA_ALG_ECDSA_BASE ((psa_algorithm_t)0x10060000)",
     "#define PSA_ALG_HASH_MASK ((psa_algorithm_t)0x000000ff)",
     "#define PSA_ALG_TRUNCATION_MASK(hash_alg) ((hash_alg) & 0x00003f00)",
     "#define PSA_ALG_HMAC(hash_alg) (PSA_ALG_HMAC_BASE | ((hash_alg) & PSA_ALG_HASH_MASK))",
     "#define PSA_ALG_ECDSA(hash_alg) (PSA_ALG_ECDSA_BASE | ((hash_alg) & PSA_ALG_HASH_MASK))",
     "#define PSA_ALG_IS_HMAC(alg) (((alg) & 0x7fc00000) == PSA_ALG_HMAC_BASE)",
     "#define PSA_KEY_USAGE_EXPORT ((psa_key_usage_t)0x00000001)",
     "#define PSA_KEY_USAGE_ENCRYPT ((psa_key_usage_t)0x00000002)",
     "#define PSA_KEY_USAGE_SIGN  ",
     "#define PSA_AEAD_TAG_LENGTH(alg, n) (n)",
     "#define PSA_CRYPTO_H",
     "typedef int32_t psa_status_t;",
     ""}

\* re.match(definition_re, line) of every line of the model, computed once
Parsed == [line \in HeaderLines |-> definition_re(line)]

(***************************************************************************)
(* MacroCollector.  A set() is a set, a dict a function on its keys.       *)
(***************************************************************************)
MacroCollector ==
    [statuses |-> {},
     key_types |-> {},
     key_types_from_curve |-> [k \in {} |-> ""],
     ecc_curves |-> {},
     algorithms |-> {},
     hash_algorithms |-> {},
     block_cipher_padding_modes |-> {},
     algorithms_from_hash |-> [k \in {} |-> ""],
     key_usages |-> {}]

\* d[k] = v
SetItem(d, k, v) == [x \in DOMAIN d \cup {k} |-> IF x = k THEN v ELSE d[x]]

\* is_helper without the MASK test
is_helper_flag_only(name) == endswith(name, "_FLAG")

\* the names read_line drops before it looks at the prefix
is_helper(name) == endswith(name, "_FLAG") \/ endswith(name, "MASK")

\* is_status without the name of the success status
is_status_errors_only(name) == startswith(name, "PSA_ERROR_")

\* name.startswith('PSA_ERROR_') or name == 'PSA_SUCCESS'
is_status(name) == startswith(name, "PSA_ERROR_") \/ name = "PSA_SUCCESS"

\* the names of the generic algorithm rule that read_line skips
duplicate_bases ==
    {"PSA_ALG_BLOCK_CIPHER_BASE", "PSA_ALG_ECDSA_BASE",
     "PSA_ALG_RSA_PKCS1V15_SIGN_BASE"}

\* name[:13] + 'IS_' + name[13:]
key_type_tester(name) == Slice(name, 1, 13) \o "IS_" \o Slice(name, 14, Len(name))

\* algorithm_tester without the naming irregularity
algorithm_tester_regular(name) ==
    Slice(name, 1, 8) \o "IS_" \o Slice(name, 9, Len(name))

\* name[:8] + 'IS_RANDOMIZED_' + name[8:] for the two irregular names,
\* name[:8] + 'IS_' + name[8:] for the others
algorithm_tester(name) ==
    IF name \in {"PSA_ALG_DSA", "PSA_ALG_ECDSA"}
    THEN Slice(name, 1, 8) \o "IS_RANDOMIZED_" \o Slice(name, 9, Len(name))
    ELSE Slice(name, 1, 8) \o "IS_" \o Slice(name, 9, Len(name))

\* add_algorithm that takes the name out of hash_algorithms again when the
\* definition at hand has no hash literal
add_algorithm_or_discard(self, name, definition) ==
    [self EXCEPT
       !.algorithms = @ \cup {name},
       !.hash_algorithms =
           IF hash_re(definition) THEN @ \cup {name} ELSE @ \ {name}]

\* self.algorithms.add(name) and the ad hoc detection of hash algorithms
add_algorithm(self, name, definition) ==
    [self EXCEPT
       !.algorithms = @ \cup {name},
       !.hash_algorithms =
           IF hash_re(definition) THEN @ \cup {name} ELSE @]

\* the if/elif chain of read_line on the groups m of a matched line
classify(self, m) ==
    LET name == m.name
        parameter == m.parameter
        definition == m.definition
    IN  IF is_helper(name) THEN self
        ELSE IF is_status(name) /\ parameter = None
        THEN [self EXCEPT !.statuses = @ \cup {name}]
        ELSE IF startswith(name, "PSA_KEY_TYPE_") /\ parameter = None
        THEN [self EXCEPT !.key_types = @ \cup {name}]
        ELSE IF startswith(name, "PSA_KEY_TYPE_") /\ parameter = "curve"
        THEN [self EXCEPT !.key_types_from_curve =
                              SetItem(@, name, key_type_tester(name))]
        ELSE IF startswith(name, "PSA_ECC_CURVE_") /\ parameter = None
        THEN [self EXCEPT !.ecc_curves = @ \cup {name}]
        ELSE IF startswith(name, "PSA_ALG_BLOCK_CIPHER_PAD_") /\ parameter = None
        THEN [self EXCEPT !.block_cipher_padding_modes = @ \cup {name}]
        ELSE IF startswith(name, "PSA_ALG_") /\ parameter = None
        THEN IF name \in duplicate_bases THEN self
             ELSE add_algorithm(self, name, definition)
        ELSE IF startswith(name, "PSA_ALG_") /\ parameter = "hash_alg"
        THEN [self EXCEPT !.algorithms_from_hash =
                              SetItem(@, name, algorithm_tester(name))]
        ELSE IF startswith(name, "PSA_KEY_USAGE_") /\ parameter = None
        THEN [self EXCEPT !.key_usages = @ \cup {name}]
        ELSE self

\* read_line whose generic algorithm rule is an if of its own, not an elif:
\* it also takes the names an earlier rule has taken
read_line_no_elif(self, line) ==
    LET m == Parsed[line]
        first == classify(self, m)
    IN  IF ~ m.matched THEN self
        ELSE IF /\ ~ is_helper(m.name)
                /\ startswith(m.name, "PSA_ALG_")
                /\ m.parameter = None
                /\ m.name \notin duplicate_bases
        THEN add_algorithm(first, m.name, m.definition)
        ELSE first

\* MacroCollector.read_line: the collector after the call
read_line(self, line) ==
    LET m == Parsed[line]
    IN  IF ~ m.matched THEN self ELSE classify(self, m)

\* MacroCollector.read_file: read_line on every line of the file, in order
RECURSIVE read_file(_, _)
read_file(self, header_file) ==
    IF header_file = <<>> THEN self
    ELSE read_file(read_line(self, Head(header_file)), Tail(header_file))

(***************************************************************************)
(* Iteration order and sorted().  Python compares str values code point    *)
(* by code point; macro names are made of word characters, whose code      *)
(* points are in the order of Alphabet.  The order in which a set (or the  *)
(* keys of a dict) is iterated is not defined by the language: it depends  *)
(* on the hash seed of the process, and iter gives one order per seed.     *)
(***************************************************************************)
Alphabet == "0123456789ABCDEFGHIJKLMNOPQRSTUVWXYZ_abcdefghijklmnopqrstuvwxyz"

ord(c) == IF c \in WordChars
          THEN CHOOSE i \in 1..Len(Alphabet) : SubSeq(Alphabet, i, i) = c
          ELSE 0

\* a < b on str, comparing from position i on
RECURSIVE lt_from(_, _, _)
lt_from(a, b, i) ==
    IF i > Len(b) THEN FALSE
    ELSE IF i > Len(a) THEN TRUE
    ELSE IF SubSeq(a, i, i) = SubSeq(b, i, i) THEN lt_from(a, b, i + 1)
    ELSE ord(SubSeq(a, i, i)) < ord(SubSeq(b, i, i))

str_lt(a, b) == lt_from(a, b, 1)

\* the element of S with exactly r elements of S below it
Ranked(S, r) == CHOOSE x \in S : Cardinality({y \in S : str_lt(y, x)}) = r

\* the elements of S in the order a process of hash seed `seed` iterates them
RECURSIVE iter(_, _)
iter(S, seed) ==
    IF S = {} THEN <<>>
    ELSE LET x == Ranked(S, seed % Cardinality(S))
         IN  <<x>> \o iter(S \ {x}, seed)

\* list.insert of x before the first element that is greater
RECURSIVE insort(_, _)
insort(seq, x) ==
    IF seq = <<>> THEN <<x>>
    ELSE IF str_lt(x, Head(seq)) THEN <<x>> \o seq
    ELSE <<Head(seq)>> \o insort(Tail(seq), x)

RECURSIVE sort_from(_, _)
sort_from(seq, acc) ==
    IF seq = <<>> THEN acc ELSE sort_from(Tail(seq), insort(acc, Head(seq)))

\* sorted that returns the elements in the order it was given them
sorted_as_iterated(seq) == seq

\* sorted(iterable), the iterable given as the sequence it yields
sorted(seq) == sort_from(seq, <<>>)

(***************************************************************************)
(* The fragments.  A rendered case, branch or bit test is the template     *)
(* with its slots filled: a record of the template and of the text put in  *)
(* each slot.  A fragment is the sequence of the rendered pieces that      *)
(* str.join puts one after the other.                                      *)
(***************************************************************************)
make_return_case(name) ==
    [template |-> "case %(name)s: return \"%(name)s\";",
     name |-> name]

make_append_case(name) ==
    [template |-> "case %(name)s: append(&buffer, buffer_size, &required_size, \"%(name)s\", %(length)d); break;",
     name |-> name, length |-> Len(name)]

make_inner_append_case(name) ==
    [template |-> "case %(name)s: append(buffer, buffer_size, required_size, \"%(name)s\", %(length)d); break;",
     name |-> name, length |-> Len(name)]

make_bit_test(var, flag) ==
    [template |-> "bit_test_template",
     var |-> var, flag |-> flag, length |-> Len(flag)]

make_key_type_from_curve_code(builder, tester) ==
    [template |-> "key_type_from_curve_template",
     builder |-> builder, builder_length |-> Len(builder), tester |-> tester]

make_algorithm_from_hash_code(builder, tester) ==
    [template |-> "algorithm_from_hash_template",
     builder |-> builder, builder_length |-> Len(builder), tester |-> tester]

\* [f(x) for x in seq]
Map(seq, f(_)) == [i \in 1..Len(seq) |-> f(seq[i])]

make_status_cases(self, seed) ==
    Map(sorted(iter(self.statuses, seed)), make_return_case)

make_ecc_curve_cases(self, seed) ==
    Map(sorted(iter(self.ecc_curves, seed)), make_return_case)

make_key_type_cases(self, seed) ==
    Map(sorted(iter(self.key_types, seed)), make_append_case)

\* make_key_type_code over d.keys() as the dict iterates them
make_key_type_code_unsorted(self, seed) ==
    LET d == self.key_types_from_curve
        make(k) == make_key_type_from_curve_code(k, d[k])
    IN  Map(iter(DOMAIN d, seed), make)

make_key_type_code(self, seed) ==
    LET d == self.key_types_from_curve
        make(k) == make_key_type_from_curve_code(k, d[k])
    IN  Map(sorted(iter(DOMAIN d, seed)), make)

make_hash_algorithm_cases(self, seed) ==
    Map(sorted(iter(self.hash_algorithms, seed)), make_return_case)

make_padding_mode_cases(self, seed) ==
    Map(sorted(iter(self.block_cipher_padding_modes, seed)),
        make_inner_append_case)

make_algorithm_cases(self, seed) ==
    Map(sorted(iter(self.algorithms, seed)), make_append_case)

make_algorithm_code(self, seed) ==
    LET d == self.algorithms_from_hash
        make(k) == make_algorithm_from_hash_code(k, d[k])
    IN  Map(sorted(iter(DOMAIN d, seed)), make)

\* make_key_usage_code over self.key_usages as the set iterates them
make_key_usage_code_unsorted(self, seed) ==
    LET bit_test(bit) == make_bit_test("usage", bit)
    IN  Map(iter(self.key_usages, seed), bit_test)

make_key_usage_code(self, seed) ==
    LET bit_test(bit) == make_bit_test("usage", bit)
    IN  Map(sorted(iter(self.key_usages, seed)), bit_test)

\* the dict data of write_file
write_file_data(self, seed) ==
    [status_cases |-> make_status_cases(self, seed),
     ecc_curve_cases |-> make_ecc_curve_cases(self, seed),
     key_type_cases |-> make_key_type_cases(self, seed),
     key_type_code |-> make_key_type_code(self, seed),
     hash_algorithm_cases |-> make_hash_algorithm_cases(self, seed),
     padding_mode_cases |-> make_padding_mode_cases(self, seed),
     algorithm_cases |-> make_algorithm_cases(self, seed),
     algorithm_code |-> make_algorithm_code(self, seed),
     key_usage_code |-> make_key_usage_code(self, seed)]

\* output_template % data: the functions of the template in its order, each
\* with the fragments put into it, and the closing comment
output_template(data) ==
    << <<"psa_strerror", data.status_cases>>,
       <<"psa_ecc_curve_name", data.ecc_curve_cases>>,
       <<"psa_hash_algorithm_name", data.hash_algorithm_cases>>,
       <<"psa_snprint_key_type", data.key_type_cases, data.key_type_code>>,
       <<"append_padding_mode", data.padding_mode_cases>>,
       <<"psa_snprint_algorithm", data.algorithm_cases, data.algorithm_code>>,
       <<"psa_snprint_key_usage", data.key_usage_code>>,
       <<"/* End of automatically generated file. */">> >>

\* the text MacroCollector.write_file writes
write_file(self, seed) == output_template(write_file_data(self, seed))

(***************************************************************************)
(* The collector fed line by line: any line of HeaderLines, in any order   *)
(* and any number of times, MaxLines different lines at most.  fed is the  *)
(* set of the lines read so far.                                           *)
(***************************************************************************)
\* what a path names: no file, or a file of the given content
NoFile == [exists |-> FALSE, data |-> <<>>]

File(data) == [exists |-> TRUE, data |-> data]

\* no generated function has been called
NoCall == [fn |-> "none"]

Init ==
    /\ collector = MacroCollector
    /\ fed = {}
    /\ pc = "collect"
    /\ header = <<>>
    /\ hashseed = 0
    /\ fs = [p \in {} |-> NoFile]
    /\ ret = NoCall

ReadLine(line) ==
    /\ pc = "collect"
    /\ line \in fed \/ Cardinality(fed) < MaxLines
    /\ collector' = read_line(collector, line)
    /\ fed' = fed \cup {line}
    /\ UNCHANGED <<pc, header, hashseed, fs, ret>>

Next == \E line \in HeaderLines : ReadLine(line)

Spec == Init /\ [][Next]_vars

(***************************************************************************)
(* The generated C functions.  A function is run on the text that          *)
(* output_template puts around its fragments: a switch takes the case      *)
(* whose label has the value switched on, the branches of key_type_code    *)
(* are one if / else if chain that ends in the block after the fragment,   *)
(* and the bit tests of key_usage_code run one after the other.  The       *)
(* values of the macros and of the predicate macros come from the header   *)
(* the generated file is compiled with.                                    *)
(***************************************************************************)
\* the values include/psa/crypto.h gives the macros of the model
MacroValue ==
    [PSA_SUCCESS |-> 0,
     PSA_ERROR_BAD_STATE |-> -137,
     PSA_ERROR_UNKNOWN_ERROR |-> 1,
     PSA_KEY_TYPE_AES |-> 1073741825,
     PSA_KEY_USAGE_EXPORT |-> 1,
     PSA_KEY_USAGE_ENCRYPT |-> 2]

NULL == "<NULL>"

\* a & b and a ^ b on unsigned values
RECURSIVE BitAnd(_, _)
BitAnd(a, b) ==
    IF a = 0 \/ b = 0 THEN 0
    ELSE 2 * BitAnd(a \div 2, b \div 2)
           + (IF a % 2 = 1 /\ b % 2 = 1 THEN 1 ELSE 0)

RECURSIVE BitXor(_, _)
BitXor(a, b) ==
    IF a = 0 THEN b
    ELSE IF b = 0 THEN a
    ELSE 2 * BitXor(a \div 2, b \div 2) + (IF a % 2 = b % 2 THEN 0 ELSE 1)

\* the digits of v in base 16, lower case
RECURSIVE hex(_)
hex(v) ==
    LET digit(d) == SubSeq("0123456789abcdef", d + 1, d + 1)
    IN  IF v < 16 THEN digit(v) ELSE hex(v \div 16) \o digit(v % 16)

\* snprintf(..., "0x%08x", v)
format_08x(v) ==
    LET h == hex(v)
    IN  "0x" \o SubSeq("00000000", 1, 8 - Len(h)) \o h

\* the first case of a switch whose label has the value v, 0 when none has
switch(cases, v) ==
    LET hit == {i \in 1..Len(cases) : MacroValue[cases[i].name] = v}
    IN  IF hit = {} THEN 0 ELSE CHOOSE i \in hit : \A j \in hit : i <= j

\* psa_strerror of the generated text
psa_strerror(text, status) ==
    LET cases == text[1][2]
        i == switch(cases, status)
    IN  IF i = 0 THEN NULL ELSE cases[i].name

\* the if / else if chain of key_type_code from branch i on; holds is the
\* set of the predicate macros that are true of type
RECURSIVE key_type_chain(_, _, _, _)
key_type_chain(code, i, type, holds) ==
    IF i > Len(code)
    THEN [call |-> "snprintf", format |-> "0x%08lx", value |-> type]
    ELSE IF code[i].tester \in holds
    THEN [call |-> "append_with_curve", builder |-> code[i].builder,
          builder_length |-> code[i].builder_length,
          curve |-> "PSA_KEY_TYPE_GET_CURVE(type)"]
    ELSE key_type_chain(code, i + 1, type, holds)

\* psa_snprint_key_type of the generated text: what it prints type with
psa_snprint_key_type(text, type, holds) ==
    LET cases == text[4][2]
        code == text[4][3]
        i == switch(cases, type)
    IN  IF i # 0
        THEN [call |-> "append", string |-> cases[i].name,
              length |-> cases[i].length]
        ELSE key_type_chain(code, 1, type, holds)

\* the bit tests of key_usage_code from test i on: usage is the working
\* copy, out the strings appended so far
RECURSIVE key_usage_tests(_, _, _, _)
key_usage_tests(code, i, usage, out) ==
    IF i > Len(code) THEN [usage |-> usage, out |-> out]
    ELSE LET flag == MacroValue[code[i].flag]
         IN  IF BitAnd(usage, flag) # 0
             THEN key_usage_tests(code, i + 1, BitXor(usage, flag),
                      out \o (IF out # <<>> THEN <<" | ">> ELSE <<>>)
                          \o <<code[i].flag>>)
             ELSE key_usage_tests(code, i + 1, usage, out)

\* psa_snprint_key_usage of the generated text: the strings it puts into
\* the buffer one after the other
psa_snprint_key_usage(text, usage) ==
    LET code == text[7][2]
        end == key_usage_tests(code, 1, usage, <<>>)
    IN  IF usage = 0 THEN <<"0">>
        ELSE IF end.usage # 0
        THEN end.out \o (IF end.out # <<>> THEN <<" | ">> ELSE <<>>)
                     \o <<format_08x(end.usage)>>
        ELSE end.out

(***************************************************************************)
(* generate_psa_constants.  The header file holds MaxFileLines of the      *)
(* lines of GenLines at most, in their order; the output path names no     *)
(* file or the file of an earlier run.  Opening, reading, writing,         *)
(* closing and renaming each succeed or raise; a write or a close that     *)
(* raises leaves any part of the text in the file.  After the rename the   *)
(* generated file is compiled and its functions are called.                *)
(***************************************************************************)
output_file_name == "programs/psa/psa_constant_names_generated.c"

\* the temporary path is the output path itself
temp_file_name_in_place(name) == name

\* temp_file_name = output_file_name + '.tmp'
temp_file_name(name) == name \o ".tmp"

GenLines ==
    <<"#define PSA_SUCCESS ((psa_status_t)0)",
      "#define PSA_ERROR_BAD_STATE ((psa_status_t)-137)",
      "#define PSA_ERROR_OFFSET(e) ((psa_status_t)(e))",
      "#define PSA_KEY_TYPE_AES ((psa_key_type_t)0x40000001)",
      "#define PSA_KEY_TYPE_ECC_PUBLIC_KEY(curve) (PSA_KEY_TYPE_ECC_PUBLIC_KEY_BASE | (curve))",
      "#define PSA_KEY_TYPE_ECC_KEYPAIR(curve) (PSA_KEY_TYPE_ECC_KEYPAIR_BASE | (curve))",
      "#define PSA_KEY_USAGE_EXPORT ((psa_key_usage_t)0x00000001)",
      "#define PSA_KEY_USAGE_ENCRYPT ((psa_key_usage_t)0x00000002)">>

\* the lines of GenLines with an index in I, from line i on
RECURSIVE Pick(_, _)
Pick(I, i) ==
    IF i > Len(GenLines) THEN <<>>
    ELSE (IF i \in I THEN <<GenLines[i]>> ELSE <<>>) \o Pick(I, i + 1)

HeaderFiles ==
    {Pick(I, 1) : I \in {J \in SUBSET (1..Len(GenLines)) :
                             Cardinality(J) <= MaxFileLines}}

\* the file of an earlier run at the output path
OldFile == File(<< <<"/* generated by an earlier run */">> >>)

\* the arguments the generated functions are called with
StatusArgs == {0, -137, 1, -1}

KeyTypeArgs == {1073741825, 1879179287}

KeyTypeTesters ==
    {"PSA_KEY_TYPE_IS_ECC_PUBLIC_KEY", "PSA_KEY_TYPE_IS_ECC_KEYPAIR"}

UsageArgs == 0..(2 ^ UsageBits - 1)

InitGen ==
    /\ collector = MacroCollector
    /\ fed = {}
    /\ pc = "open_header"
    /\ header \in HeaderFiles
    /\ hashseed \in 0..MaxSeed
    /\ \E old \in {NoFile, OldFile} :
           fs = [p \in {output_file_name, temp_file_name(output_file_name)}
                   |-> IF p = output_file_name THEN old ELSE NoFile]
    /\ ret = NoCall

\* with open(header_file_name) as header_file:
OpenHeader ==
    /\ pc = "open_header"
    /\ pc' = "read_file"
    /\ UNCHANGED <<collector, fed, header, hashseed, fs, ret>>

OpenHeaderRaises ==
    /\ pc = "open_header"
    /\ pc' = "raised"
    /\ UNCHANGED <<collector, fed, header, hashseed, fs, ret>>

\* collector.read_file(header_file), and the header file is closed
ReadFile ==
    /\ pc = "read_file"
    /\ collector' = read_file(collector, header)
    /\ fed' = {header[i] : i \in 1..Len(header)}
    /\ pc' = "open_temp"
    /\ UNCHANGED <<header, hashseed, fs, ret>>

\* reading raises after n lines
ReadFileRaises ==
    /\ pc = "read_file"
    /\ \E n \in 0..Len(header) :
           /\ collector' = read_file(collector, SubSeq(header, 1, n))
           /\ fed' = {header[i] : i \in 1..n}
    /\ pc' = "raised"
    /\ UNCHANGED <<header, hashseed, fs, ret>>

\* with open(temp_file_name, 'w') as output_file: the file is created or
\* truncated
OpenTemp ==
    /\ pc = "open_temp"
    /\ fs' = [fs EXCEPT ![temp_file_name(output_file_name)] = File(<<>>)]
    /\ pc' = "write_file"
    /\ UNCHANGED <<collector, fed, header, hashseed, ret>>

OpenTempRaises ==
    /\ pc = "open_temp"
    /\ pc' = "raised"
    /\ UNCHANGED <<collector, fed, header, hashseed, fs, ret>>

\* collector.write_file(output_file): the text is handed to the buffered
\* file, which has written the first n parts of it when write returns
WriteFile ==
    /\ pc = "write_file"
    /\ LET text == write_file(collector, hashseed)
       IN  \E n \in 0..Len(text) :
               fs' = [fs EXCEPT ![temp_file_name(output_file_name)] =
                                    File(SubSeq(text, 1, n))]
    /\ pc' = "close"
    /\ UNCHANGED <<collector, fed, header, hashseed, ret>>

\* the write raises with the first n parts written, not all of them
WriteFileRaises ==
    /\ pc = "write_file"
    /\ LET text == write_file(collector, hashseed)
       IN  \E n \in 0..(Len(text) - 1) :
               fs' = [fs EXCEPT ![temp_file_name(output_file_name)] =
                                    File(SubSeq(text, 1, n))]
    /\ pc' = "raised"
    /\ UNCHANGED <<collector, fed, header, hashseed, ret>>

\* leaving the with block closes output_file: the rest of the text is written
Close ==
    /\ pc = "close"
    /\ fs' = [fs EXCEPT ![temp_file_name(output_file_name)] =
                            File(write_file(collector, hashseed))]
    /\ pc' = "rename"
    /\ UNCHANGED <<collector, fed, header, hashseed, ret>>

\* the close raises with n parts written, not all of them
CloseRaises ==
    /\ pc = "close"
    /\ LET text == write_file(collector, hashseed)
           tmp == temp_file_name(output_file_name)
       IN  \E n \in Len(fs[tmp].data)..(Len(text) - 1) :
               fs' = [fs EXCEPT ![tmp] = File(SubSeq(text, 1, n))]
    /\ pc' = "raised"
    /\ UNCHANGED <<collector, fed, header, hashseed, ret>>

\* os.rename(temp_file_name, output_file_name)
Rename ==
    /\ pc = "rename"
    /\ LET tmp == temp_file_name(output_file_name)
       IN  fs' = [p \in DOMAIN fs |->
                     IF p = output_file_name THEN fs[tmp]
                     ELSE IF p = tmp THEN NoFile
                     ELSE fs[p]]
    /\ pc' = "done"
    /\ UNCHANGED <<collector, fed, header, hashseed, ret>>

RenameRaises ==
    /\ pc = "rename"
    /\ pc' = "raised"
    /\ UNCHANGED <<collector, fed, header, hashseed, fs, ret>>

\* a call of psa_strerror of the generated file
CallStrerror ==
    /\ pc = "done"
    /\ \E status \in StatusArgs :
           ret' = [fn |-> "psa_strerror", arg |-> status,
                   value |-> psa_strerror(fs[output_file_name].data, status)]
    /\ UNCHANGED <<collector, fed, pc, header, hashseed, fs>>

\* a call of psa_snprint_key_type of the generated file
CallSnprintKeyType ==
    /\ pc = "done"
    /\ \E type \in KeyTypeArgs, holds \in SUBSET KeyTypeTesters :
           ret' = [fn |-> "psa_snprint_key_type", arg |-> type,
                   holds |-> holds,
                   value |-> psa_snprint_key_type(fs[output_file_name].data,
                                                  type, holds)]
    /\ UNCHANGED <<collector, fed, pc, header, hashseed, fs>>

\* a call of psa_snprint_key_usage of the generated file
CallSnprintKeyUsage ==
    /\ pc = "done"
    /\ \E usage \in UsageArgs :
           ret' = [fn |-> "psa_snprint_key_usage", arg |-> usage,
                   value |-> psa_snprint_key_usage(fs[output_file_name].data,
                                                   usage)]
    /\ UNCHANGED <<collector, fed, pc, header, hashseed, fs>>

NextGen ==
    \/ OpenHeader
    \/ OpenHeaderRaises
    \/ ReadFile
    \/ ReadFileRaises
    \/ OpenTemp
    \/ OpenTempRaises
    \/ WriteFile
    \/ WriteFileRaises
    \/ Close
    \/ CloseRaises
    \/ Rename
    \/ RenameRaises
    \/ CallStrerror
    \/ CallSnprintKeyType
    \/ CallSnprintKeyUsage

SpecGen == InitGen /\ [][NextGen]_vars

(***************************************************************************)
(* Properties of the collector, checked under Spec.                        *)
(***************************************************************************)
\* sub occurs in s
Contains(s, sub) ==
    \E i \in 1..Len(s) :
        i + Len(sub) - 1 <= Len(s) /\ SubSeq(s, i, i + Len(sub) - 1) = sub

\* the nine collections as sets of names, the mappings by their keys
Collections(c) ==
    [statuses |-> c.statuses,
     key_types |-> c.key_types,
     key_types_from_curve |-> DOMAIN c.key_types_from_curve,
     ecc_curves |-> c.ecc_curves,
     algorithms |-> c.algorithms,
     hash_algorithms |-> c.hash_algorithms,
     block_cipher_padding_modes |-> c.block_cipher_padding_modes,
     algorithms_from_hash |-> DOMAIN c.algorithms_from_hash,
     key_usages |-> c.key_usages]

CollectionNames == DOMAIN Collections(MacroCollector)

\* every name some collection holds
Collected(c) == UNION {Collections(c)[f] : f \in CollectionNames}

\* the names the fragments of the generated file are rendered for
RenderedNames(c) ==
    LET data == write_file_data(c, 0)
        slot(piece) == IF "name" \in DOMAIN piece THEN piece.name
                       ELSE IF "flag" \in DOMAIN piece THEN piece.flag
                       ELSE piece.builder
    IN  UNION {{slot(data[f][i]) : i \in 1..Len(data[f])} : f \in DOMAIN data}

\* the lines read so far that define name, by the groups of their match
DefinedBy(name) ==
    {Parsed[l] : l \in {x \in fed : Parsed[x].matched /\ Parsed[x].name = name}}

\* C1 as stated: no name that ends in _FLAG or has MASK anywhere in it is
\* in a collection or rendered
C1_NoFlagOrMaskNameCollected ==
    \A n \in Collected(collector) \cup RenderedNames(collector) :
        ~ (endswith(n, "_FLAG") \/ Contains(n, "MASK"))

\* C1 amended: no name that ends in _FLAG or ends in MASK is a member of one
\* of the seven sets or a key of one of the two mappings, whatever its prefix
\* and parameter, and none is rendered into a fragment
C1_NoFlagOrMaskSuffixCollected ==
    \A n \in Collected(collector) \cup RenderedNames(collector) :
        ~ (endswith(n, "_FLAG") \/ endswith(n, "MASK"))

\* lines of names ending in _FLAG and in MASK, with and without a parameter,
\* have been read next to a line that is collected
C1_Witness ==
    /\ \E l \in fed : Parsed[l].matched /\ endswith(Parsed[l].name, "_FLAG")
    /\ \E l \in fed : /\ Parsed[l].matched
                      /\ endswith(Parsed[l].name, "MASK")
                      /\ Parsed[l].parameter = "hash_alg"
    /\ Collected(collector) # {}

\* C2 as stated: the nine collections are pairwise disjoint
C2_NineCollectionsPairwiseDisjoint ==
    \A f, g \in CollectionNames :
        f # g => Collections(collector)[f] \cap Collections(collector)[g] = {}

\* the pairs of collections that one name can be in: a hash algorithm is an
\* algorithm, and a name defined once without and once with a parameter is
\* in a set and in a mapping
SharingPairs ==
    {{"algorithms", "hash_algorithms"},
     {"key_types", "key_types_from_curve"},
     {"algorithms", "algorithms_from_hash"},
     {"hash_algorithms", "algorithms_from_hash"},
     {"block_cipher_padding_modes", "algorithms_from_hash"}}

\* C2 amended: every two of the nine collections are disjoint, except the
\* five pairs of SharingPairs; the six sets statuses, key_types, ecc_curves,
\* block_cipher_padding_modes, algorithms and key_usages are pairwise
\* disjoint and so are the two mappings
C2_CollectionsDisjointExceptSharingPairs ==
    \A f, g \in CollectionNames :
        f # g /\ {f, g} \notin SharingPairs
            => Collections(collector)[f] \cap Collections(collector)[g] = {}

\* three collections hold names, and one name is shared by a set and a mapping
C2_Witness ==
    /\ collector.statuses # {}
    /\ collector.hash_algorithms # {}
    /\ collector.algorithms \cap DOMAIN collector.algorithms_from_hash # {}

\* the definition text holds 0x010000 and two hexadecimal digits after it
HasHashLiteral(text) ==
    \E i \in 1..Len(text) :
        /\ i + 9 <= Len(text)
        /\ SubSeq(text, i, i + 7) = "0x010000"
        /\ SubSeq(text, i + 8, i + 8) \in HexDigits
        /\ SubSeq(text, i + 9, i + 9) \in HexDigits

\* the groups of a line that reaches the generic algorithm rule
ReachesAlgorithmRule(m) ==
    /\ m.parameter = None
    /\ startswith(m.name, "PSA_ALG_")
    /\ ~ startswith(m.name, "PSA_ALG_BLOCK_CIPHER_PAD_")
    /\ m.name \notin {"PSA_ALG_BLOCK_CIPHER_BASE", "PSA_ALG_ECDSA_BASE",
                      "PSA_ALG_RSA_PKCS1V15_SIGN_BASE"}
    /\ ~ (endswith(m.name, "_FLAG") \/ endswith(m.name, "MASK"))

\* C8: hash_algorithms is a subset of algorithms; a name is in it exactly
\* when a line read so far reaches the generic algorithm rule with that name
\* and a definition text that holds 0x010000 and two hexadecimal digits; the
\* 0x01000055 definition is a hash algorithm, the 0x02000055 one alone is an
\* algorithm and no hash algorithm
C8_HashAlgorithmDetection ==
    /\ collector.hash_algorithms \subseteq collector.algorithms
    /\ \A l \in fed :
           Parsed[l].matched /\ ReachesAlgorithmRule(Parsed[l])
               => /\ Parsed[l].name \in collector.algorithms
                  /\ Parsed[l].name \in collector.hash_algorithms
                       <=> \E m \in DefinedBy(Parsed[l].name) :
                               /\ ReachesAlgorithmRule(m)
                               /\ HasHashLiteral(m.definition)
    /\ \A n \in collector.hash_algorithms :
           \E m \in DefinedBy(n) :
               ReachesAlgorithmRule(m) /\ HasHashLiteral(m.definition)
    /\ "#define PSA_ALG_FOO ((psa_algorithm_t)0x01000055)" \in fed
           => "PSA_ALG_FOO" \in collector.hash_algorithms
    /\ ( /\ "#define PSA_ALG_FOO ((psa_algorithm_t)0x02000055)" \in fed
         /\ "#define PSA_ALG_FOO ((psa_algorithm_t)0x01000055)" \notin fed )
           => /\ "PSA_ALG_FOO" \in collector.algorithms
              /\ "PSA_ALG_FOO" \notin collector.hash_algorithms

\* the 0x02000055 definition has been read and is no hash algorithm, next to
\* a definition that is one
C8_Witness ==
    /\ "#define PSA_ALG_FOO ((psa_algorithm_t)0x02000055)" \in fed
    /\ "PSA_ALG_FOO" \in collector.algorithms \ collector.hash_algorithms
    /\ "PSA_ALG_SHA_256" \in collector.hash_algorithms

\* C9: algorithms_from_hash has a key N only if N starts with PSA_ALG_, does
\* not end in _FLAG or MASK and a line read so far defines N with the single
\* parameter hash_alg; N = PSA_ALG_ + R is mapped to PSA_ALG_IS_RANDOMIZED_ + R
\* for PSA_ALG_DSA and PSA_ALG_ECDSA and to PSA_ALG_IS_ + R otherwise; a
\* PSA_ALG_ name defined only with other parameter names is in no collection
C9_AlgorithmsFromHash ==
    LET d == collector.algorithms_from_hash
        R(N) == SubSeq(N, Len("PSA_ALG_") + 1, Len(N))
    IN  /\ \A N \in DOMAIN d :
               /\ startswith(N, "PSA_ALG_")
               /\ ~ (endswith(N, "_FLAG") \/ endswith(N, "MASK"))
               /\ \E m \in DefinedBy(N) : m.parameter = "hash_alg"
               /\ d[N] = IF N = "PSA_ALG_DSA" \/ N = "PSA_ALG_ECDSA"
                         THEN "PSA_ALG_IS_RANDOMIZED_" \o R(N)
                         ELSE "PSA_ALG_IS_" \o R(N)
        /\ \A l \in fed :
               ( /\ Parsed[l].matched
                 /\ startswith(Parsed[l].name, "PSA_ALG_")
                 /\ ~ (endswith(Parsed[l].name, "_FLAG")
                          \/ endswith(Parsed[l].name, "MASK"))
                 /\ Parsed[l].parameter = "hash_alg" )
               => Parsed[l].name \in DOMAIN d
        /\ \A l \in fed :
               ( /\ Parsed[l].matched
                 /\ startswith(Parsed[l].name, "PSA_ALG_")
                 /\ \A m \in DefinedBy(Parsed[l].name) :
                        m.parameter \notin {None, "hash_alg"} )
               => Parsed[l].name \notin Collected(collector)

\* an irregular and a regular hash-parameterized algorithm are recorded and a
\* PSA_ALG_ macro of another parameter has been read
C9_Witness ==
    /\ "PSA_ALG_ECDSA" \in DOMAIN collector.algorithms_from_hash
    /\ "PSA_ALG_HMAC" \in DOMAIN collector.algorithms_from_hash
    /\ "#define PSA_ALG_IS_HMAC(alg) (((alg) & 0x7fc00000) == PSA_ALG_HMAC_BASE)" \in fed

\* one collection of c is contained in that of d, and d keeps the predicate
\* of every key of c
Grows(c, d) ==
    /\ \A f \in CollectionNames : Collections(c)[f] \subseteq Collections(d)[f]
    /\ \A k \in DOMAIN c.key_types_from_curve :
           d.key_types_from_curve[k] = c.key_types_from_curve[k]
    /\ \A k \in DOMAIN c.algorithms_from_hash :
           d.algorithms_from_hash[k] = c.algorithms_from_hash[k]

\* the lines of S read one after the other, in one fixed order, each once
RECURSIVE ReadEach(_, _)
ReadEach(self, S) ==
    IF S = {} THEN self
    ELSE LET l == CHOOSE x \in S : TRUE
         IN  ReadEach(read_line(self, l), S \ {l})

\* the prefixes and the name the rules of read_line look for
RulePrefixes ==
    {"PSA_ERROR_", "PSA_KEY_TYPE_", "PSA_ECC_CURVE_", "PSA_ALG_",
     "PSA_KEY_USAGE_"}

\* the groups of a matched line that no rule of read_line takes: a helper
\* name, a name of no rule's prefix, a parameter no rule asks for, or one of
\* the three skipped base names
TakenByNoRule(m) ==
    \/ endswith(m.name, "_FLAG") \/ endswith(m.name, "MASK")
    \/ /\ m.name # "PSA_SUCCESS"
       /\ \A p \in RulePrefixes : ~ startswith(m.name, p)
    \/ m.parameter \notin {None, "curve", "hash_alg"}
    \/ /\ m.parameter = None
       /\ m.name \in {"PSA_ALG_BLOCK_CIPHER_BASE", "PSA_ALG_ECDSA_BASE",
                       "PSA_ALG_RSA_PKCS1V15_SIGN_BASE"}

\* C10: the collector depends on the set of the lines read alone, whatever
\* their order and however often each was read; reading a line again changes
\* nothing; a line that is no macro definition or that no rule takes
\* changes nothing; and a call of read_line removes no name and changes no
\* stored predicate
C10_OrderAndMultiplicity ==
    /\ collector = ReadEach(MacroCollector, fed)
    /\ \A l \in fed : read_line(collector, l) = collector
    /\ \A l \in HeaderLines :
           ( ~ Parsed[l].matched \/ TakenByNoRule(Parsed[l]) )
           => read_line(collector, l) = collector
    /\ \A l \in HeaderLines : Grows(collector, read_line(collector, l))

\* both definitions of one algorithm and a line that defines nothing have
\* been read, and a mapping holds a key
C10_Witness ==
    /\ \E l \in fed : ~ Parsed[l].matched \/ TakenByNoRule(Parsed[l])
    /\ Cardinality({l \in fed : Parsed[l].matched /\ Parsed[l].name = "PSA_ALG_FOO"}) = 2
    /\ Cardinality(fed) > 2
    /\ "PSA_ALG_FOO" \in collector.hash_algorithms

(***************************************************************************)
(* Properties of generate_psa_constants and of the generated functions,    *)
(* checked under SpecGen.                                                  *)
(***************************************************************************)
\* the file of the complete text rendered from the whole header
CompleteFile == File(write_file(read_file(MacroCollector, header), hashseed))

\* C3: the file at the output path is changed by the rename alone, the
\* rename is made only with the whole header read and the complete text in
\* the closed temporary file, a step that raises leaves the file at the
\* output path as it was, and the output path never names a file of part
\* of the text
C3_AtomicOutput ==
    /\ [](fs[output_file_name] \in {NoFile, OldFile, CompleteFile})
    /\ [](pc = "rename"
            => /\ collector = read_file(MacroCollector, header)
               /\ fs[temp_file_name(output_file_name)] = CompleteFile)
    /\ [][/\ fs'[output_file_name] # fs[output_file_name]
              => /\ pc = "rename" /\ pc' = "done"
                 /\ fs[temp_file_name(output_file_name)] = CompleteFile
                 /\ fs'[output_file_name] = CompleteFile
          /\ pc' = "raised" => fs'[output_file_name] = fs[output_file_name]
         ]_vars

\* a write or a close has raised with part of the text in the temporary
\* file, and the output path still names the file of the earlier run
C3_Witness ==
    LET tmp == temp_file_name(output_file_name)
    IN  /\ pc = "raised"
        /\ fs[tmp].exists
        /\ fs[tmp].data # <<>>
        /\ fs[tmp] # CompleteFile
        /\ fs[output_file_name] = OldFile

\* the names a fragment is rendered for, in its order
FragmentNames(fragment) ==
    [i \in 1..Len(fragment) |->
        IF "name" \in DOMAIN fragment[i] THEN fragment[i].name
        ELSE IF "flag" \in DOMAIN fragment[i] THEN fragment[i].flag
        ELSE fragment[i].builder]

IsAscending(names) ==
    \A i, j \in 1..Len(names) : i < j => str_lt(names[i], names[j])

\* C4: the text a finished run has put at the output path is the text a run
\* of any other hash seed renders from the same header lines, and every
\* fragment of it is in ascending order of macro name
C4_Deterministic ==
    pc = "done" =>
        LET text == fs[output_file_name].data
        IN  /\ \A seed \in 0..MaxSeed :
                  text = write_file(read_file(MacroCollector, header), seed)
            /\ \A p \in 1..Len(text) : \A k \in 2..Len(text[p]) :
                  IsAscending(FragmentNames(text[p][k]))

\* a run whose sets iterate in descending order has finished with two names
\* in one fragment
C4_Witness ==
    /\ pc = "done"
    /\ hashseed = 1
    /\ Len(fs[output_file_name].data[7][2]) = 2

\* the element of S that is before every other one
Least(S) == CHOOSE x \in S : \A y \in S : x = y \/ str_lt(x, y)

\* C5: a value that is no collected key type is printed by the builder that
\* is first in ascending name order among those whose predicate holds of it,
\* and as 0x%08lx when no predicate holds or none was collected
C5_FirstPredicateInNameOrder ==
    ( /\ ret.fn = "psa_snprint_key_type"
      /\ \A n \in collector.key_types : MacroValue[n] # ret.arg )
    => LET d == collector.key_types_from_curve
           firing == {k \in DOMAIN d : d[k] \in ret.holds}
       IN  IF firing = {}
           THEN ret.value = [call |-> "snprintf", format |-> "0x%08lx",
                             value |-> ret.arg]
           ELSE ret.value = [call |-> "append_with_curve",
                             builder |-> Least(firing),
                             builder_length |-> Len(Least(firing)),
                             curve |-> "PSA_KEY_TYPE_GET_CURVE(type)"]

\* both predicates hold of the value, in a run whose dict iterates the later
\* name first
C5_Witness ==
    /\ ret.fn = "psa_snprint_key_type"
    /\ ret.holds = KeyTypeTesters
    /\ Cardinality(DOMAIN collector.key_types_from_curve) = 2
    /\ hashseed = 1
    /\ ret.value.call = "append_with_curve"

\* bit b of v is set
Bit(v, b) == (v \div (2 ^ b)) % 2 = 1

RECURSIVE SumOf(_)
SumOf(S) == IF S = {} THEN 0
            ELSE LET x == CHOOSE y \in S : TRUE IN x + SumOf(S \ {x})

\* the names of S in ascending order
RECURSIVE Ascending(_)
Ascending(S) == IF S = {} THEN <<>>
                ELSE <<Least(S)>> \o Ascending(S \ {Least(S)})

\* the strings of seq with sep between them
RECURSIVE Joined(_, _)
Joined(seq, sep) ==
    IF Len(seq) <= 1 THEN seq
    ELSE <<Head(seq), sep>> \o Joined(Tail(seq), sep)

\* C6: a nonzero key usage value is printed as the names of the collected
\* flags whose bit is set in it, in ascending name order, and then, when
\* bits of it are covered by no collected flag, those bits as 0x%08x, all
\* joined by " | "; two known flags give both names and no hexadecimal
\* part, an unknown bit comes last
C6_KeyUsageBitFlags ==
    ( ret.fn = "psa_snprint_key_usage" /\ ret.arg # 0 )
    => LET known == collector.key_usages
           bits == 0..(UsageBits - 1)
           set == {f \in known :
                     \E b \in bits : Bit(MacroValue[f], b) /\ Bit(ret.arg, b)}
           left == SumOf({2 ^ b : b \in
                            {c \in bits :
                               /\ Bit(ret.arg, c)
                               /\ \A f \in known : ~ Bit(MacroValue[f], c)}})
       IN  /\ ret.value =
                Joined(Ascending(set)
                         \o (IF left = 0 THEN <<>> ELSE <<format_08x(left)>>),
                       " | ")
           /\ ( known = {"PSA_KEY_USAGE_EXPORT", "PSA_KEY_USAGE_ENCRYPT"}
                /\ ret.arg = 3 )
              => ret.value = <<"PSA_KEY_USAGE_ENCRYPT", " | ",
                               "PSA_KEY_USAGE_EXPORT">>
           /\ ( known = {"PSA_KEY_USAGE_EXPORT", "PSA_KEY_USAGE_ENCRYPT"}
                /\ ret.arg = 7 )
              => ret.value = <<"PSA_KEY_USAGE_ENCRYPT", " | ",
                               "PSA_KEY_USAGE_EXPORT", " | ", "0x00000004">>

\* two known flags and an unknown bit have been printed, in a run whose set
\* iterates the later name first
C6_Witness ==
    /\ ret.fn = "psa_snprint_key_usage"
    /\ hashseed = 1
    /\ ret.value = <<"PSA_KEY_USAGE_ENCRYPT", " | ",
                     "PSA_KEY_USAGE_EXPORT", " | ", "0x00000004">>

\* the names of the status lines of the header: no parameter, PSA_SUCCESS or
\* a PSA_ERROR_ name, not ending in _FLAG or MASK
StatusNames ==
    {Parsed[l].name : l \in
        {x \in {header[i] : i \in 1..Len(header)} :
            /\ Parsed[x].matched
            /\ Parsed[x].parameter = None
            /\ \/ Parsed[x].name = "PSA_SUCCESS"
               \/ startswith(Parsed[x].name, "PSA_ERROR_")
            /\ ~ (endswith(Parsed[x].name, "_FLAG")
                    \/ endswith(Parsed[x].name, "MASK"))}}

\* C7: psa_strerror of the generated file returns the name of the status
\* line of the header whose macro has the value passed, and NULL for a value
\* no status line has; from the lines of PSA_SUCCESS and PSA_ERROR_BAD_STATE
\* it returns "PSA_SUCCESS" for 0, "PSA_ERROR_BAD_STATE" for -137 and NULL
\* for any other value
C7_StatusRoundTrip ==
    ret.fn = "psa_strerror"
    => /\ \A n \in StatusNames : MacroValue[n] = ret.arg => ret.value = n
       /\ (\A n \in StatusNames : MacroValue[n] # ret.arg) => ret.value = NULL
       /\ StatusNames = {"PSA_SUCCESS", "PSA_ERROR_BAD_STATE"}
          => ret.value = IF ret.arg = 0 THEN "PSA_SUCCESS"
                         ELSE IF ret.arg = -137 THEN "PSA_ERROR_BAD_STATE"
                         ELSE NULL

\* psa_strerror(-137) has returned the name, from a header of both lines
C7_Witness ==
    /\ ret.fn = "psa_strerror"
    /\ StatusNames = {"PSA_SUCCESS", "PSA_ERROR_BAD_STATE"}
    /\ ret.arg = -137
    /\ ret.value = "PSA_ERROR_BAD_STATE"

=============================================================================
